---- MODULE Spec2Model ----
(***************************************************************************)
(* NotionVoxBot: a Telegram bot that downloads a voice message, has it     *)
(* transcribed by the Whisper API, titles it with a language model and     *)
(* stores it as a page in a Notion database.                               *)
(*                                                                         *)
(* Two deployment variants are modelled:                                   *)
(*   "webhook"  src/lambda_handler.py  (handler -> process_update -> ...)  *)
(*   "polling"  src/bot.py             (Application handlers)              *)
(*                                                                         *)
(* One request is processed at a time; pc is the position inside the       *)
(* handler that is processing it.  Every call of an external service       *)
(* (Telegram, Whisper, the language model, Notion) either returns or       *)
(* raises; a call that raises has had no effect on the service.            *)
(***************************************************************************)
EXTENDS Integers, Sequences, FiniteSets, TLC

(* ----------------------------- bounds --------------------------------- *)

\* number of inbound requests processed in one behaviour
MaxRuns == 2

\* seconds the clock can reach in one behaviour
MaxClock == 1

\* how far past the title cap the texts given to generate_ai_title go
TitleSlack == 3

(* ------------------------- program constants -------------------------- *)

\* lambda_handler.py:31-33; identities are written as strings because the
\* real identity does not fit a 32-bit integer
ALLOWED_USER_IDS == {"8314097969"}

\* generate_ai_title: fallback truncation length and the title cap
FallbackLen == 50
TitleCap == 100
TitleKeep == 97

(* ------------------------------ inputs -------------------------------- *)

UserIds == {"8314097969", "1001"}
Usernames == {"stratovate", "None"}
Users == [id : UserIds, username : Usernames, first_name : {"Jon"}]

\* characters of the texts the services return
Ellipsis == <<".", ".", ".">>
Transcripts == {<<>>, <<" ">>, <<"a">>, <<"a", "b">>}
LLMContents == {<<>>, <<"t">>, <<"\"", "t", "\"">>, <<" ">>}
Durations == {12}

Texts == {"/myid", "/start", "/help", "hello"}

\* what one inbound Telegram update carries
\*   voice      a message with a voice payload
\*   text       a message with text
\*   other      a message with neither (a photo, a sticker, ...)
\*   nomessage  an update without a message (an edited message, a poll, ...)
\*   undecodable  a body Update.de_json cannot decode
UpdateKinds == {"voice", "text", "other", "nomessage", "undecodable"}
NoText == "-"
Updates ==
    { u \in [kind : UpdateKinds, from_user : Users,
             text : Texts \cup {NoText}, duration : Durations] :
        (u.kind = "text") <=> (u.text # NoText) }
NoUpdate ==
    [kind |-> "none",
     from_user |-> [id |-> "-", username |-> "-", first_name |-> "-"],
     text |-> NoText, duration |-> 0]

\* environment variables: TRUE when set
Envs == [TELEGRAM_BOT_TOKEN : BOOLEAN, OPENAI_API_KEY : BOOLEAN,
         NOTION_TOKEN : BOOLEAN, NOTION_DATABASE_ID : BOOLEAN]

\* outcome of one call of an external service
Outcomes == {"ok", "raise"}

(* ------------------------------ state --------------------------------- *)

VARIABLES
    variant,              \* "webhook" or "polling"
    env,                  \* the environment variables of the process
    pc,                   \* position of the handler processing the request
    runs,                 \* requests received so far
    update,               \* the update being processed
    bot,                  \* the NotionVoxBot instance: its three clients
    calls,                \* this run: calls of is_authorized_user and of the
                          \* external APIs, in order
    chat,                 \* this run: chat messages sent/edited, in order
    file,                 \* the local audio file of this run
    transcription_result, \* result of transcribe_audio
    notion_result,        \* result of create_voice_memo_page
    pages,                \* the pages of the Notion database
    created,              \* this run: the pages it added to the database
    response,             \* the envelope handler() returned
    raised,               \* where an exception of this run was caught last
    clock,                \* the last reading of datetime.now(), in seconds
    written,              \* every local audio file written so far: the run
                          \* and the path, in order
    titler                \* one call of generate_ai_title: its arguments,
                          \* the language model's reply and the title

vars == <<variant, env, pc, runs, update, bot, calls, chat, file,
          transcription_result, notion_result, pages, created, response,
          raised, clock, written, titler>>

(* --------------------------- pure helpers ----------------------------- *)

\* mutant of is_authorized_user: the owner's username is accepted as well
is_authorized_user_by_username(user_id, username) ==
    user_id \in ALLOWED_USER_IDS \/ username = "stratovate"

\* lambda_handler.py:35-42
is_authorized_user(user_id, username) == user_id \in ALLOWED_USER_IDS

NoResult == [success |-> FALSE, error |-> "-", value |-> <<>>, set |-> FALSE]
Success(v) == [success |-> TRUE, error |-> "None", value |-> v, set |-> TRUE]
Failure(e) == [success |-> FALSE, error |-> e, value |-> <<>>, set |-> TRUE]
\* an exception leaving the function instead of a result
Raised(e) == [success |-> FALSE, error |-> e, value |-> <<>>, set |-> FALSE]

NoBot == [transcriber_client |-> FALSE, notion_client |-> FALSE,
          openai_client |-> FALSE, built |-> FALSE]

\* WhisperTranscriber.__init__ and NotionIntegrator.__init__
NewBot(e) ==
    [transcriber_client |-> e.OPENAI_API_KEY,
     notion_client |-> e.NOTION_TOKEN /\ e.NOTION_DATABASE_ID,
     openai_client |-> e.NOTION_TOKEN /\ e.NOTION_DATABASE_ID /\ e.OPENAI_API_KEY,
     built |-> TRUE]


NoNotionResult == [success |-> FALSE, error |-> "-", page_url |-> 0, set |-> FALSE]
NotionSuccess(url) == [success |-> TRUE, error |-> "None", page_url |-> url, set |-> TRUE]
NotionFailure(e) == [success |-> FALSE, error |-> e, page_url |-> 0, set |-> TRUE]

Call(api, outcome) == [api |-> api, outcome |-> outcome]

\* the calls that leave the process for a paid or rate-limited service
ExternalAPIs == {"get_file", "download_to_drive", "convert_oga_to_mp3",
                 "transcriptions.create", "chat.completions.create",
                 "pages.create"}

(* ---------------------------- str methods ----------------------------- *)

RECURSIVE LStrip(_, _)
LStrip(s, chars) ==
    IF s # <<>> /\ Head(s) \in chars THEN LStrip(Tail(s), chars) ELSE s

RECURSIVE RStrip(_, _)
RStrip(s, chars) ==
    IF s # <<>> /\ s[Len(s)] \in chars
    THEN RStrip(SubSeq(s, 1, Len(s) - 1), chars) ELSE s

\* str.strip(chars); str.strip() strips whitespace
Strip(s, chars) == RStrip(LStrip(s, chars), chars)
Whitespace == {" "}

(* ------------------------- NotionIntegrator --------------------------- *)

\* mutant of fallback_title: the cut leaves room for the ellipsis
fallback_title_short(transcript) ==
    IF Len(transcript) > FallbackLen
    THEN SubSeq(transcript, 1, FallbackLen - 3) \o Ellipsis
    ELSE transcript

\* transcript[:50] + "..." if len(transcript) > 50 else transcript
fallback_title(transcript) ==
    IF Len(transcript) > FallbackLen
    THEN SubSeq(transcript, 1, FallbackLen) \o Ellipsis
    ELSE transcript

\* what the language model does with one request: it raises (API error,
\* no choices, content None) or answers with a text
LLMReplies ==
    {[outcome |-> "raise", content |-> <<>>]} \cup
    {[outcome |-> "ok", content |-> c] : c \in LLMContents}

\* mutant of generate_ai_title: the model's text is returned at any length
generate_ai_title_uncapped(openai_client, transcript, llm) ==
    IF ~openai_client THEN fallback_title(transcript)
    ELSE IF llm.outcome = "raise" THEN fallback_title(transcript)
    ELSE Strip(Strip(Strip(llm.content, Whitespace), {"\""}), {"'"})

\* lambda_handler.py:106-144 (bot.py:119-157 is the same text)
generate_ai_title(openai_client, transcript, llm) ==
    IF ~openai_client THEN fallback_title(transcript)
    ELSE IF llm.outcome = "raise" THEN fallback_title(transcript)
    ELSE LET stripped == Strip(Strip(Strip(llm.content, Whitespace), {"\""}), {"'"})
         IN  IF Len(stripped) > TitleCap
             THEN SubSeq(stripped, 1, TitleKeep) \o Ellipsis
             ELSE stripped

\* the calls generate_ai_title makes
generate_ai_title_calls(openai_client, llm) ==
    IF openai_client THEN <<Call("chat.completions.create", llm.outcome)>>
    ELSE <<>>

VoiceMemoTitle(user_name) == <<"Voice memo from ", user_name>>

\* mutant of create_voice_memo_page: the page is submitted twice
create_voice_memo_page_twice(client, openai_client, transcript, duration, user_name, llm, store, url) ==
    IF ~client
    THEN [result |-> NotionFailure("Notion client not configured"),
          calls |-> <<>>, created |-> <<>>]
    ELSE LET ai == generate_ai_title(openai_client, transcript, llm)
             title == IF Strip(ai, Whitespace) = <<>>
                      THEN VoiceMemoTitle(user_name) ELSE ai
             page == [title |-> title, transcript |-> transcript,
                      duration |-> duration, source |-> "Telegram",
                      url |-> url]
             made == generate_ai_title_calls(openai_client, llm)
                       \o <<Call("pages.create", store)>>
         IN  IF store = "ok"
             THEN [result |-> NotionSuccess(url), calls |-> made,
                   created |-> <<page, page>>]
             ELSE [result |-> NotionFailure("notion_api_error"),
                   calls |-> made, created |-> <<>>]

\* mutant of create_voice_memo_page: the derived title is used as it is
create_voice_memo_page_untitled(client, openai_client, transcript, duration, user_name, llm, store, url) ==
    IF ~client
    THEN [result |-> NotionFailure("Notion client not configured"),
          calls |-> <<>>, created |-> <<>>]
    ELSE LET title == generate_ai_title(openai_client, transcript, llm)
             page == [title |-> title, transcript |-> transcript,
                      duration |-> duration, source |-> "Telegram",
                      url |-> url]
             made == generate_ai_title_calls(openai_client, llm)
                       \o <<Call("pages.create", store)>>
         IN  IF store = "ok"
             THEN [result |-> NotionSuccess(url), calls |-> made,
                   created |-> <<page>>]
             ELSE [result |-> NotionFailure("notion_api_error"),
                   calls |-> made, created |-> <<>>]

\* lambda_handler.py:146-211 (bot.py:159-224 is the same text).
\* store is the outcome of pages.create, url the reference it returns.
\* The result, the calls made, and the page the store created (if any).
create_voice_memo_page(client, openai_client, transcript, duration, user_name, llm, store, url) ==
    IF ~client
    THEN [result |-> NotionFailure("Notion client not configured"),
          calls |-> <<>>, created |-> <<>>]
    ELSE LET ai == generate_ai_title(openai_client, transcript, llm)
             title == IF Strip(ai, Whitespace) = <<>>
                      THEN VoiceMemoTitle(user_name) ELSE ai
             page == [title |-> title, transcript |-> transcript,
                      duration |-> duration, source |-> "Telegram",
                      url |-> url]
             made == generate_ai_title_calls(openai_client, llm)
                       \o <<Call("pages.create", store)>>
         IN  IF store = "ok"
             THEN [result |-> NotionSuccess(url), calls |-> made,
                   created |-> <<page>>]
             ELSE [result |-> NotionFailure("notion_api_error"),
                   calls |-> made, created |-> <<>>]

(* ------------------------ WhisperTranscriber -------------------------- *)

\* mutant of transcribe_audio: the API is called without a client check
transcribe_audio_unguarded(client, api, text) ==
    IF api = "ok"
    THEN [result |-> Success(text),
          calls |-> <<Call("transcriptions.create", "ok")>>]
    ELSE [result |-> Failure("whisper_api_error"),
          calls |-> <<Call("transcriptions.create", "raise")>>]

\* lambda_handler.py:55-87: the upload is the .oga file itself
transcribe_audio(client, api, text) ==
    IF ~client
    THEN [result |-> Failure("OpenAI API key not configured"), calls |-> <<>>]
    ELSE IF api = "ok"
    THEN [result |-> Success(text),
          calls |-> <<Call("transcriptions.create", "ok")>>]
    ELSE [result |-> Failure("whisper_api_error"),
          calls |-> <<Call("transcriptions.create", "raise")>>]

\* mutant of transcribe_audio_bot: the conversion is outside the try block
transcribe_audio_bot_converts_outside_try(client, conv, api, text) ==
    IF ~client
    THEN [result |-> Failure("OpenAI API key not configured"), calls |-> <<>>]
    ELSE IF conv = "raise"
    THEN [result |-> Raised("conversion_error"),
          calls |-> <<Call("convert_oga_to_mp3", "raise")>>]
    ELSE IF api = "ok"
    THEN [result |-> Success(text),
          calls |-> <<Call("convert_oga_to_mp3", "ok"),
                      Call("transcriptions.create", "ok")>>]
    ELSE [result |-> Failure("whisper_api_error"),
          calls |-> <<Call("convert_oga_to_mp3", "ok"),
                      Call("transcriptions.create", "raise")>>]

\* bot.py:64-100: the .oga file is converted to .mp3 first; an error of the
\* conversion is re-raised by convert_oga_to_mp3 (bot.py:60-62) and caught
\* by transcribe_audio like an API error
transcribe_audio_bot(client, conv, api, text) ==
    IF ~client
    THEN [result |-> Failure("OpenAI API key not configured"), calls |-> <<>>]
    ELSE IF conv = "raise"
    THEN [result |-> Failure("conversion_error"),
          calls |-> <<Call("convert_oga_to_mp3", "raise")>>]
    ELSE IF api = "ok"
    THEN [result |-> Success(text),
          calls |-> <<Call("convert_oga_to_mp3", "ok"),
                      Call("transcriptions.create", "ok")>>]
    ELSE [result |-> Failure("whisper_api_error"),
          calls |-> <<Call("convert_oga_to_mp3", "ok"),
                      Call("transcriptions.create", "raise")>>]

(* --------------------------- chat messages ---------------------------- *)

\* A chat text, by the parts the handlers put in it.
Text(kind) ==
    [kind |-> kind, header |-> "-", user_name |-> "-", user_id |-> "-",
     duration |-> 0, transcript |-> <<>>, suffix |-> "-", error |-> "-",
     page_url |-> 0]

\* lambda_handler.py:241
UnauthorizedText == Text("unauthorized")
\* lambda_handler.py:391-392
UnauthorizedHintText == Text("unauthorized_hint")
\* lambda_handler.py:365
VoiceApologyText == Text("voice_apology")
\* lambda_handler.py:449
TextApologyText == Text("text_apology")
\* lambda_handler.py:397-406
WelcomeText == Text("welcome")
\* lambda_handler.py:413-433
HelpText == Text("help")
\* lambda_handler.py:441-442
PromptText == Text("prompt")

\* f"{user.first_name} {user.last_name or ''}".strip(), last_name None
user_name_of(user) == user.first_name

\* lambda_handler.py:379-383
MyIdText(user) ==
    [Text("myid") EXCEPT !.user_name = user_name_of(user), !.user_id = user.id]

\* lambda_handler.py:286-294
initial_response(user, duration) ==
    [Text("interim") EXCEPT !.header = "received",
                            !.user_name = user_name_of(user),
                            !.duration = duration,
                            !.suffix = "transcribing"]

\* mutant of final_response: the notice does not look at the store's result
final_response_always_saved(user, duration, transcript, result) ==
    [Text("final") EXCEPT !.header = "processed",
                          !.user_name = user_name_of(user),
                          !.duration = duration,
                          !.transcript = transcript,
                          !.suffix = "saved_to_notion",
                          !.page_url = result.page_url]

\* lambda_handler.py:317-332
final_response(user, duration, transcript, result) ==
    [Text("final") EXCEPT !.header = "processed",
                          !.user_name = user_name_of(user),
                          !.duration = duration,
                          !.transcript = transcript,
                          !.suffix = IF result.success THEN "saved_to_notion"
                                     ELSE "notion_save_failed",
                          !.error = IF result.success THEN "-" ELSE result.error,
                          !.page_url = IF result.success THEN result.page_url
                                       ELSE 0]

\* lambda_handler.py:345-353
error_response(user, duration, error_msg) ==
    [Text("transcription_failed") EXCEPT !.header = "received",
                                         !.user_name = user_name_of(user),
                                         !.duration = duration,
                                         !.suffix = "transcription_failed",
                                         !.error = error_msg]

\* one call of the chat API: send_message/reply_text or edit_message_text.
\* A message that was sent is known by its place in chat; target is the
\* message an edit names (message_id), 0 for a send.
ChatOp(op, text, outcome) ==
    [op |-> op, text |-> text, outcome |-> outcome, target |-> 0]

\* lambda_handler.py:334-338, 355-359 (bot.py:374, 391):
\* edit_message_text(message_id=sent_message.message_id, ...)
EditOp(message_id, text, outcome) ==
    [ChatOp("edit", text, outcome) EXCEPT !.target = message_id]


(* ------------------------------ envelopes ----------------------------- *)

NoResponse == [statusCode |-> 0, status |-> "-", message |-> "-"]
\* lambda_handler.py:488-494
OkEnvelope == [statusCode |-> 200, status |-> "ok", message |-> "-"]
\* lambda_handler.py:499-509
RunningEnvelope ==
    [statusCode |-> 200, status |-> "ok",
     message |-> "NotionVoxBot Lambda is running"]
\* lambda_handler.py:513-522
ErrorEnvelope(e) == [statusCode |-> 500, status |-> "error", message |-> e]

\* what the transport hands to handler(): an event without a body (a direct
\* invocation), or a body that json.loads parses or not
Events ==
    {[has_body |-> FALSE, parses |-> FALSE, update |-> NoUpdate],
     [has_body |-> TRUE, parses |-> FALSE, update |-> NoUpdate]} \cup
    {[has_body |-> TRUE, parses |-> TRUE, update |-> u] : u \in Updates}

\* generate_ai_title has not been called
NoTitler ==
    [openai_client |-> FALSE, transcript |-> <<>>,
     llm |-> [outcome |-> "raise", content |-> <<>>],
     title |-> <<>>, returned |-> FALSE]

(* ------------------------------- Init --------------------------------- *)

Init ==
    /\ variant \in {"webhook", "polling"}
    /\ env \in Envs
    /\ pc = IF variant = "polling" THEN "main" ELSE "idle"
    /\ runs = 0
    /\ update = NoUpdate
    /\ bot = NoBot
    /\ calls = <<>>
    /\ chat = <<>>
    /\ file = "none"
    /\ transcription_result = NoResult
    /\ notion_result = NoNotionResult
    /\ pages = <<>>
    /\ created = <<>>
    /\ response = NoResponse
    /\ raised = "none"
    /\ clock = 0
    /\ written = <<>>
    /\ titler = NoTitler

\* the locals of the previous request are gone when the next one starts
NewRun(u) ==
    /\ runs' = runs + 1
    /\ update' = u
    /\ calls' = <<>>
    /\ chat' = <<>>
    /\ file' = "none"
    /\ transcription_result' = NoResult
    /\ notion_result' = NoNotionResult
    /\ created' = <<>>
    /\ titler' = NoTitler
    /\ UNCHANGED <<variant, env, clock, written, pages>>

\* where a handler goes when it returns normally
Returned == IF variant = "webhook" THEN "return" ELSE "done"

\* mutant of LeaveWith: the file outlives the block
LeaveWith_keeps(f) == f

\* leaving the `with tempfile.TemporaryDirectory()` block of
\* lambda_handler.py:250 removes the directory and the file in it;
\* bot.py:300 writes to DOWNLOADS_DIR and never removes the file
LeaveWith(f) == IF variant = "webhook" /\ f = "present" THEN "deleted" ELSE f

(* ------------------------ webhook: handler() -------------------------- *)

\* lambda_handler.py:467-480, 496-522
handler ==
    /\ variant = "webhook"
    /\ pc \in {"idle", "done"}
    /\ runs < MaxRuns
    /\ \E event \in Events :
         /\ NewRun(event.update)
         /\ bot' = NoBot
         /\ IF ~event.has_body
            THEN /\ response' = RunningEnvelope
                 /\ raised' = "none"
                 /\ pc' = "done"
            ELSE IF ~event.parses
            THEN /\ response' = ErrorEnvelope("json_decode_error")
                 /\ raised' = "handler"
                 /\ pc' = "done"
            ELSE /\ response' = NoResponse
                 /\ raised' = "none"
                 /\ pc' = "NotionVoxBot"

\* lambda_handler.py:483 with 214-229; Bot(token=None) raises InvalidToken,
\* which handler() turns into the error envelope (511-522)
NotionVoxBot_init ==
    /\ pc = "NotionVoxBot"
    /\ IF env.TELEGRAM_BOT_TOKEN
       THEN /\ bot' = NewBot(env)
            /\ pc' = "process_update"
            /\ UNCHANGED <<response, raised>>
       ELSE /\ response' = ErrorEnvelope("invalid_token")
            /\ raised' = "handler"
            /\ pc' = "done"
            /\ UNCHANGED bot
    /\ UNCHANGED <<variant, env, clock, written, titler, runs, update, calls, chat, file,
                   transcription_result, notion_result, pages, created>>

\* which handler process_update gives the update to
\* lambda_handler.py:455-461
dispatch(u) ==
    IF u.kind = "voice" THEN "handle_voice_message"
    ELSE IF u.kind = "text" THEN "handle_text_message"
    ELSE "return"

\* mutant of process_update_except: the exception is raised again
process_update_reraises ==
    [pc |-> "done", raised |-> "handler",
     response |-> ErrorEnvelope("update_error")]

\* lambda_handler.py:463-464: an exception that reaches process_update is
\* logged and process_update returns; in bot.py nothing catches what leaves
\* a handler before the library does
process_update_except ==
    IF variant = "webhook"
    THEN [pc |-> "return", raised |-> "process_update", response |-> NoResponse]
    ELSE [pc |-> "done", raised |-> "library", response |-> NoResponse]

\* mutant of process_update: the update is handled in the background and
\* the envelope goes out at once
process_update_in_background ==
    /\ pc = "process_update"
    /\ response' = OkEnvelope
    /\ IF update.kind = "undecodable"
       THEN /\ pc' = process_update_except.pc
            /\ raised' = process_update_except.raised
       ELSE /\ pc' = dispatch(update)
            /\ UNCHANGED raised
    /\ UNCHANGED <<variant, env, clock, written, titler, runs, update, bot,
                   calls, chat, file, transcription_result, notion_result,
                   pages, created>>

\* lambda_handler.py:452-464
process_update ==
    /\ pc = "process_update"
    /\ IF update.kind = "undecodable"
       THEN /\ pc' = process_update_except.pc
            /\ raised' = process_update_except.raised
            /\ response' = process_update_except.response
       ELSE /\ pc' = dispatch(update)
            /\ UNCHANGED <<raised, response>>
    /\ UNCHANGED <<variant, env, clock, written, titler, runs, update, bot, calls, chat, file,
                   transcription_result, notion_result, pages, created>>

\* lambda_handler.py:486-494: process_update has returned
handler_return ==
    /\ pc = "return"
    /\ response' = OkEnvelope
    /\ pc' = "done"
    /\ UNCHANGED <<variant, env, clock, written, titler, runs, update, bot, calls, chat, file,
                   transcription_result, notion_result, pages, created, raised>>

(* ------------------------- polling: bot.py ---------------------------- *)

\* bot.py:411-423 with 227-231
main ==
    /\ pc = "main"
    /\ IF env.TELEGRAM_BOT_TOKEN
       THEN bot' = NewBot(env) /\ pc' = "idle"
       ELSE bot' = bot /\ pc' = "exited"
    /\ UNCHANGED <<variant, env, clock, written, titler, runs, update, calls, chat, file,
                   transcription_result, notion_result, pages, created, response,
                   raised>>

\* bot.py:233-243: the first handler whose filter matches gets the update
setup_handlers(u) ==
    IF u.kind = "text" /\ u.text = "/start" THEN "start_command"
    ELSE IF u.kind = "text" /\ u.text = "/help" THEN "help_command"
    ELSE IF u.kind = "voice" THEN "handle_voice"
    ELSE "handle_other"

\* bot.py:406-409: one update with a message arrives
run_polling ==
    /\ variant = "polling"
    /\ pc \in {"idle", "done"}
    /\ runs < MaxRuns
    /\ \E u \in Updates :
         /\ u.kind \in {"voice", "text", "other"}
         /\ NewRun(u)
         /\ pc' = setup_handlers(u)
    /\ raised' = "none"
    /\ UNCHANGED <<bot, response>>


(* ------------------------- the voice pipeline ------------------------- *)

\* lambda_handler.py:233-238: the authorization check
handle_voice_message ==
    /\ pc = "handle_voice_message"
    /\ calls' = Append(calls, Call("is_authorized_user", "ok"))
    /\ pc' = IF is_authorized_user(update.from_user.id, update.from_user.username)
             THEN "get_file" ELSE "send_unauthorized"
    /\ UNCHANGED <<variant, env, clock, written, titler, runs, update, bot, chat, file,
                   transcription_result, notion_result, pages, created, response,
                   raised>>

\* lambda_handler.py:239-243
send_unauthorized ==
    /\ pc = "send_unauthorized"
    /\ \E o \in Outcomes :
         /\ chat' = Append(chat, ChatOp("send", UnauthorizedText, o))
         /\ pc' = IF o = "ok" THEN Returned ELSE "except_voice"
         /\ raised' = IF o = "ok" THEN raised ELSE "handle_voice"
    /\ UNCHANGED <<variant, env, clock, written, titler, runs, update, bot, calls, file,
                   transcription_result, notion_result, pages, created, response>>

\* bot.py:286-292: no authorization check, every sender is served
handle_voice ==
    /\ pc = "handle_voice"
    /\ pc' = "get_file"
    /\ UNCHANGED <<variant, env, clock, written, titler, runs, update, bot, calls, chat, file,
                   transcription_result, notion_result, pages, created, response,
                   raised>>

\* mutant of get_file: the handler goes on after a failed retrieval
get_file_ignores_failure ==
    /\ pc = "get_file"
    /\ \E o \in Outcomes :
         /\ calls' = Append(calls, Call("get_file", o))
         /\ pc' = "download_to_drive"
         /\ raised' = raised
    /\ UNCHANGED <<variant, env, clock, written, titler, runs, update, bot,
                   chat, file, transcription_result, notion_result, pages,
                   created, response>>

\* lambda_handler.py:250-252 (bot.py:295)
get_file ==
    /\ pc = "get_file"
    /\ \E o \in Outcomes :
         /\ calls' = Append(calls, Call("get_file", o))
         /\ pc' = IF o = "ok" THEN "download_to_drive" ELSE "except_voice"
         /\ raised' = IF o = "ok" THEN raised ELSE "handle_voice"
    /\ UNCHANGED <<variant, env, clock, written, titler, runs, update, bot, chat, file,
                   transcription_result, notion_result, pages, created, response>>

\* lambda_handler.py:250, 257: a directory of its own for the request;
\* bot.py:31, 300: the one downloads directory
directory ==
    IF variant = "webhook" THEN [kind |-> "temp", of |-> runs]
    ELSE [kind |-> "downloads", of |-> 0]

\* lambda_handler.py:255-257 (bot.py:298-300):
\* voice_{user.id}_{%Y%m%d_%H%M%S}.oga in the directory
file_path(user, now) ==
    [dir |-> directory, user_id |-> user.id, timestamp |-> now]

\* mutant of download_to_drive: the handler goes on after a failed download
download_to_drive_ignores_failure ==
    /\ pc = "download_to_drive"
    /\ \E o \in Outcomes, now \in clock..MaxClock :
         /\ clock' = now
         /\ calls' = Append(calls, Call("download_to_drive", o))
         /\ file' = IF o = "ok" THEN "present" ELSE file
         /\ written' = IF o = "ok"
                       THEN Append(written,
                              [run |-> runs,
                               path |-> file_path(update.from_user, now)])
                       ELSE written
         /\ pc' = "send_interim"
         /\ raised' = raised
    /\ UNCHANGED <<variant, env, titler, runs, update, bot, chat,
                   transcription_result, notion_result, pages, created,
                   response>>

\* lambda_handler.py:254-263 (bot.py:297-306); datetime.now() is read
\* before the download and never runs backwards
download_to_drive ==
    /\ pc = "download_to_drive"
    /\ \E o \in Outcomes, now \in clock..MaxClock :
         /\ clock' = now
         /\ calls' = Append(calls, Call("download_to_drive", o))
         /\ file' = IF o = "ok" THEN "present" ELSE file
         /\ written' = IF o = "ok"
                       THEN Append(written,
                              [run |-> runs,
                               path |-> file_path(update.from_user, now)])
                       ELSE written
         /\ pc' = IF o = "ok" THEN "send_interim" ELSE "except_voice"
         /\ raised' = IF o = "ok" THEN raised ELSE "handle_voice"
    /\ UNCHANGED <<variant, env, titler, runs, update, bot, chat,
                   transcription_result, notion_result, pages, created,
                   response>>

\* lambda_handler.py:285-299 (bot.py:328-339)
send_interim ==
    /\ pc = "send_interim"
    /\ \E o \in Outcomes :
         /\ chat' = Append(chat, ChatOp("send",
                       initial_response(update.from_user, update.duration), o))
         /\ pc' = IF o = "ok" THEN "transcribe" ELSE "except_voice"
         /\ raised' = IF o = "ok" THEN raised ELSE "handle_voice"
         /\ file' = IF o = "ok" THEN file ELSE LeaveWith(file)
    /\ UNCHANGED <<variant, env, clock, written, titler, runs, update, bot, calls,
                   transcription_result, notion_result, pages, created, response>>

\* lambda_handler.py:296 (bot.py:339): the message the interim send
\* returned
sent_message ==
    CHOOSE i \in 1..Len(chat) :
        chat[i].op = "send" /\ chat[i].text.kind = "interim"

\* the transcriber of the variant
transcriber(conv, api, text) ==
    IF variant = "webhook"
    THEN transcribe_audio(bot.transcriber_client, api, text)
    ELSE transcribe_audio_bot(bot.transcriber_client, conv, api, text)

\* mutant of after_transcription: the store is tried whatever the result
after_transcription_always_stores(result) == "create_voice_memo_page"

\* lambda_handler.py:304, 340: the store is tried after a successful
\* transcription only
after_transcription(result) ==
    IF result.success THEN "create_voice_memo_page" ELSE "edit_error"

\* lambda_handler.py:301-307, 340-342 (bot.py:341-347, 376-378)
transcribe ==
    /\ pc = "transcribe"
    /\ \E conv \in Outcomes, api \in Outcomes, text \in Transcripts :
         LET t == transcriber(conv, api, text) IN
         /\ calls' = calls \o t.calls
         /\ IF t.result.set
            THEN /\ transcription_result' = t.result
                 /\ pc' = after_transcription(t.result)
                 /\ UNCHANGED <<raised, file>>
            ELSE /\ transcription_result' = transcription_result
                 /\ pc' = "except_voice"
                 /\ raised' = "handle_voice"
                 /\ file' = LeaveWith(file)
    /\ UNCHANGED <<variant, env, clock, written, titler, runs, update, bot, chat, notion_result,
                   pages, created, response>>

\* lambda_handler.py:309-314 (bot.py:349-354)
save_to_notion ==
    /\ pc = "create_voice_memo_page"
    /\ \E llm \in LLMReplies, store \in Outcomes :
         LET n == create_voice_memo_page(bot.notion_client, bot.openai_client,
                     transcription_result.value, update.duration,
                     user_name_of(update.from_user), llm, store,
                     Len(pages) + 1) IN
         /\ calls' = calls \o n.calls
         /\ pages' = pages \o n.created
         /\ created' = created \o n.created
         /\ titler' = IF bot.notion_client
                      THEN [openai_client |-> bot.openai_client,
                            transcript |-> transcription_result.value,
                            llm |-> llm,
                            title |-> generate_ai_title(bot.openai_client,
                                        transcription_result.value, llm),
                            returned |-> TRUE]
                      ELSE titler
         /\ IF n.result.set
            THEN /\ notion_result' = n.result
                 /\ pc' = "edit_final"
                 /\ UNCHANGED <<raised, file>>
            ELSE /\ notion_result' = notion_result
                 /\ pc' = "except_voice"
                 /\ raised' = "handle_voice"
                 /\ file' = LeaveWith(file)
    /\ UNCHANGED <<variant, env, clock, written, runs, update, bot, chat,
                   transcription_result, response>>

\* lambda_handler.py:316-338 (bot.py:356-374)
edit_final ==
    /\ pc = "edit_final"
    /\ \E o \in Outcomes :
         /\ chat' = Append(chat, EditOp(sent_message,
                       final_response(update.from_user, update.duration,
                                      transcription_result.value,
                                      notion_result), o))
         /\ pc' = IF o = "ok" THEN Returned ELSE "except_voice"
         /\ raised' = IF o = "ok" THEN raised ELSE "handle_voice"
    /\ file' = LeaveWith(file)
    /\ UNCHANGED <<variant, env, clock, written, titler, runs, update, bot, calls,
                   transcription_result, notion_result, pages, created, response>>

\* lambda_handler.py:340-359 (bot.py:376-391)
edit_error ==
    /\ pc = "edit_error"
    /\ \E o \in Outcomes :
         /\ chat' = Append(chat, EditOp(sent_message,
                       error_response(update.from_user, update.duration,
                                      transcription_result.error), o))
         /\ pc' = IF o = "ok" THEN Returned ELSE "except_voice"
         /\ raised' = IF o = "ok" THEN raised ELSE "handle_voice"
    /\ file' = LeaveWith(file)
    /\ UNCHANGED <<variant, env, clock, written, titler, runs, update, bot, calls,
                   transcription_result, notion_result, pages, created, response>>

\* lambda_handler.py:361-366 (bot.py:393-397): the catch-all of the voice
\* handler; nothing in the handler catches what its send raises
except_voice ==
    /\ pc = "except_voice"
    /\ \E o \in Outcomes :
         /\ chat' = Append(chat, ChatOp("send", VoiceApologyText, o))
         /\ IF o = "ok"
            THEN /\ pc' = Returned
                 /\ UNCHANGED <<raised, response>>
            ELSE /\ pc' = process_update_except.pc
                 /\ raised' = process_update_except.raised
                 /\ response' = process_update_except.response
    /\ UNCHANGED <<variant, env, clock, written, titler, runs, update, bot, calls, file,
                   transcription_result, notion_result, pages, created>>


(* -------------------------- text messages ----------------------------- *)

\* lambda_handler.py:375, 388: /myid is answered before the authorization
\* check, every other text after it
text_checks_authorization(text) == text # "/myid"

\* mutant of text_response: the authorization check comes first
text_response_checks_first(user, text) ==
    IF ~is_authorized_user(user.id, user.username) THEN UnauthorizedHintText
    ELSE IF text = "/myid" THEN MyIdText(user)
    ELSE IF text = "/start" THEN WelcomeText
    ELSE IF text = "/help" THEN HelpText
    ELSE PromptText

\* mutant of text_response: /start is answered before the authorization
\* check as well
text_response_welcomes_first(user, text) ==
    IF text = "/myid" THEN MyIdText(user)
    ELSE IF text = "/start" THEN WelcomeText
    ELSE IF ~is_authorized_user(user.id, user.username) THEN UnauthorizedHintText
    ELSE IF text = "/help" THEN HelpText
    ELSE PromptText

\* lambda_handler.py:375-443: the one text handle_text_message sends
text_response(user, text) ==
    IF text = "/myid" THEN MyIdText(user)
    ELSE IF ~is_authorized_user(user.id, user.username) THEN UnauthorizedHintText
    ELSE IF text = "/start" THEN WelcomeText
    ELSE IF text = "/help" THEN HelpText
    ELSE PromptText

\* lambda_handler.py:368-443
handle_text_message ==
    /\ pc = "handle_text_message"
    /\ calls' = IF text_checks_authorization(update.text)
                THEN Append(calls, Call("is_authorized_user", "ok"))
                ELSE calls
    /\ \E o \in Outcomes :
         /\ chat' = Append(chat, ChatOp("send",
                       text_response(update.from_user, update.text), o))
         /\ pc' = IF o = "ok" THEN Returned ELSE "except_text"
         /\ raised' = IF o = "ok" THEN raised ELSE "handle_text_message"
    /\ UNCHANGED <<variant, env, clock, written, titler, runs, update, bot, file,
                   transcription_result, notion_result, pages, created, response>>

\* lambda_handler.py:445-450
except_text ==
    /\ pc = "except_text"
    /\ \E o \in Outcomes :
         /\ chat' = Append(chat, ChatOp("send", TextApologyText, o))
         /\ IF o = "ok"
            THEN /\ pc' = Returned
                 /\ UNCHANGED <<raised, response>>
            ELSE /\ pc' = process_update_except.pc
                 /\ raised' = process_update_except.raised
                 /\ response' = process_update_except.response
    /\ UNCHANGED <<variant, env, clock, written, titler, runs, update, bot, calls, file,
                   transcription_result, notion_result, pages, created>>

\* bot.py:245-257: replies once and catches nothing
start_command ==
    /\ pc = "start_command"
    /\ \E o \in Outcomes :
         /\ chat' = Append(chat, ChatOp("send", WelcomeText, o))
         /\ pc' = "done"
         /\ raised' = IF o = "ok" THEN raised ELSE "library"
    /\ UNCHANGED <<variant, env, clock, written, titler, runs, update, bot, calls, file,
                   transcription_result, notion_result, pages, created, response>>

\* bot.py:259-282: replies once and catches nothing
help_command ==
    /\ pc = "help_command"
    /\ \E o \in Outcomes :
         /\ chat' = Append(chat, ChatOp("send", HelpText, o))
         /\ pc' = "done"
         /\ raised' = IF o = "ok" THEN raised ELSE "library"
    /\ UNCHANGED <<variant, env, clock, written, titler, runs, update, bot, calls, file,
                   transcription_result, notion_result, pages, created, response>>

\* bot.py:399-404: replies once and catches nothing
handle_other ==
    /\ pc = "handle_other"
    /\ \E o \in Outcomes :
         /\ chat' = Append(chat, ChatOp("send", PromptText, o))
         /\ pc' = "done"
         /\ raised' = IF o = "ok" THEN raised ELSE "library"
    /\ UNCHANGED <<variant, env, clock, written, titler, runs, update, bot, calls, file,
                   transcription_result, notion_result, pages, created, response>>

(* --------------------------- specification ---------------------------- *)

Next ==
    \/ handler
    \/ NotionVoxBot_init
    \/ process_update
    \/ handler_return
    \/ main
    \/ run_polling
    \/ handle_voice_message
    \/ send_unauthorized
    \/ handle_voice
    \/ get_file
    \/ download_to_drive
    \/ send_interim
    \/ transcribe
    \/ save_to_notion
    \/ edit_final
    \/ edit_error
    \/ except_voice
    \/ handle_text_message
    \/ except_text
    \/ start_command
    \/ help_command
    \/ handle_other

Spec == Init /\ [][Next]_vars

(* ------------------- generate_ai_title on long texts ------------------ *)

\* lengths around the fallback cut, the cap, and past the cap
TitleLengths ==
    {0, 1, FallbackLen - 1, FallbackLen, FallbackLen + 1, TitleKeep,
     TitleCap - 1, TitleCap} \cup ((TitleCap + 1)..(TitleCap + TitleSlack))

\* a text of n characters: c up to position k, d after it
Chars(n, k, c, d) == [i \in 1..n |-> IF i <= k THEN c ELSE d]

TitleTranscripts == {Chars(n, FallbackLen, "a", "b") : n \in TitleLengths}

\* what the model may put around its title
TitleWraps ==
    {<<>>, <<" ">>, <<"\"">>, <<"'">>, <<" ", "\"", "'">>, <<"'", "\"">>}
Reverse(s) == [i \in 1..Len(s) |-> s[Len(s) + 1 - i]]

TitleContents ==
    {w \o Chars(n, TitleKeep, "t", "u") \o Reverse(w) :
        w \in TitleWraps, n \in TitleLengths}

TitleReplies ==
    {[outcome |-> "raise", content |-> <<>>]} \cup
    {[outcome |-> "ok", content |-> c] : c \in TitleContents}

\* a NotionIntegrator as __init__ leaves it (lambda_handler.py:92-104),
\* about to title one transcript
InitTitle ==
    /\ variant \in {"webhook", "polling"}
    /\ env \in {e \in Envs : e.TELEGRAM_BOT_TOKEN /\ e.NOTION_TOKEN
                                /\ e.NOTION_DATABASE_ID}
    /\ pc = "generate_ai_title"
    /\ runs = 0
    /\ update = NoUpdate
    /\ bot = NoBot
    /\ calls = <<>>
    /\ chat = <<>>
    /\ file = "none"
    /\ transcription_result = NoResult
    /\ notion_result = NoNotionResult
    /\ pages = <<>>
    /\ created = <<>>
    /\ response = NoResponse
    /\ raised = "none"
    /\ clock = 0
    /\ written = <<>>
    /\ \E t \in TitleTranscripts, l \in TitleReplies :
         titler = [openai_client |-> env.OPENAI_API_KEY, transcript |-> t,
                   llm |-> l, title |-> <<>>, returned |-> FALSE]

\* lambda_handler.py:106-144: one call, from entry to return
call_generate_ai_title ==
    /\ pc = "generate_ai_title"
    /\ titler' = [titler EXCEPT
                    !.title = generate_ai_title(titler.openai_client,
                                                titler.transcript, titler.llm),
                    !.returned = TRUE]
    /\ calls' = calls \o generate_ai_title_calls(titler.openai_client,
                                                  titler.llm)
    /\ pc' = "returned"
    /\ UNCHANGED <<variant, env, clock, written, runs, update, bot, chat,
                   file, transcription_result, notion_result, pages, created,
                   response, raised>>

NextTitle == call_generate_ai_title

SpecTitle == InitTitle /\ [][NextTitle]_vars

(* -------------------------- derived notions --------------------------- *)

\* the request in hand has been processed to its end
RunEnded == pc = "done" /\ runs > 0


\* the calls of this run that left for an external API
ExternalCalls == SelectSeq(calls, LAMBDA c : c.api \in ExternalAPIs)

CallsOf(api) == SelectSeq(calls, LAMBDA c : c.api = api)

\* the chat calls of this run that reached the requester
Delivered == SelectSeq(chat, LAMBDA m : m.outcome = "ok")

\* what the requester sees of this run: every message sent, the interim
\* message with the text of the last edit that reached it
Visible ==
    LET sends == SelectSeq(Delivered, LAMBDA m : m.op = "send")
        edits == SelectSeq(Delivered, LAMBDA m : m.op = "edit")
    IN  [i \in 1..Len(sends) |->
           IF sends[i].text.kind = "interim" /\ edits # <<>>
           THEN edits[Len(edits)].text
           ELSE sends[i].text]

\* a terminal message is any message but the interim "Transcribing audio..."
TerminalVisible == SelectSeq(Visible, LAMBDA t : t.kind # "interim")

Sender == update.from_user
SenderAllowed == is_authorized_user(Sender.id, Sender.username)

\* a voice message is being, or has been, processed by the voice pipeline
VoiceRun == bot.built /\ update.kind = "voice" /\ runs > 0
VoiceRunEnded == VoiceRun /\ pc = "done"

(* ------------------------------- C1 ----------------------------------- *)

\* C1: for a voice message whose sender is not in the allow-list, the voice
\* pipeline of either variant makes no external API call and the only chat
\* message it sends is the fixed unauthorized message.
C1_UnauthorizedVoiceMakesNoExternalCall ==
    (VoiceRun /\ ~SenderAllowed) =>
        /\ ExternalCalls = <<>>
        /\ \A i \in 1..Len(chat) : chat[i].text = UnauthorizedText

(* ------------------------------- C2 ----------------------------------- *)

\* C2: every run of the voice pipeline ends with exactly one terminal
\* message visible to the requester, whatever the outcome of its stages.
C2_ExactlyOneTerminalResponse ==
    (variant = "webhook" /\ VoiceRunEnded) => Len(TerminalVisible) = 1

(* ------------------------------- C3 ----------------------------------- *)

StoreFailed == notion_result.set /\ ~notion_result.success

\* C3: when transcription succeeded and the store returned a failure, the
\* requester ends up seeing the final message with the full transcript, and
\* neither the transcription-failed nor the generic-error message.
C3_StoreFailureKeepsTranscript ==
    (VoiceRunEnded /\ transcription_result.success /\ StoreFailed) =>
        /\ \E i \in 1..Len(Visible) :
             /\ Visible[i].kind = "final"
             /\ Visible[i].transcript = transcription_result.value
        /\ \A i \in 1..Len(Visible) :
             Visible[i].kind \notin {"transcription_failed", "voice_apology"}

(* ------------------------------- C4 ----------------------------------- *)

TranscriptionFailed == transcription_result.set /\ ~transcription_result.success

\* C4: in a run whose transcription failed, create_voice_memo_page is not
\* invoked, the language model and the store's page-create are not called,
\* and no page is added to the database.
C4_NoRecordAfterTranscriptionFailure ==
    (VoiceRun /\ TranscriptionFailed) =>
        /\ ~notion_result.set
        /\ CallsOf("pages.create") = <<>>
        /\ CallsOf("chat.completions.create") = <<>>
        /\ created = <<>>
        /\ pc # "create_voice_memo_page"

\* a run of either variant has ended after a failed transcription
C4_Witness ==
    /\ VoiceRunEnded
    /\ TranscriptionFailed
    /\ transcription_result.error = "whisper_api_error"
    /\ bot.notion_client
    /\ Len(Delivered) = 2


(* ------------------------------- C5 ----------------------------------- *)

\* C5 as claimed: every run whose transcription succeeded has created
\* exactly one record by its end.
C5_ExactlyOneRecordPerTranscription ==
    (VoiceRunEnded /\ transcription_result.success) => Len(created) = 1

C5_RecordCount ==
    /\ Len(created) <= 1
    /\ (VoiceRun /\ ~transcription_result.success) => created = <<>>
    /\ (VoiceRunEnded /\ transcription_result.success) =>
          /\ notion_result.set
          /\ (Len(created) = 1) <=> notion_result.success
    /\ \A i \in 1..Len(created) :
          /\ created[i].transcript = transcription_result.value
          /\ created[i].url = notion_result.page_url

\* C5 as amended: a run creates at most one record; a run whose
\* transcription succeeded has created exactly one record by its end if
\* create_voice_memo_page returned success and none if it returned failure;
\* a run without a successful transcription creates none; and no step
\* changes or removes a page of the database.
C5_AtMostOneRecordNeverChanged ==
    /\ []C5_RecordCount
    /\ [][/\ Len(pages') >= Len(pages)
          /\ SubSeq(pages', 1, Len(pages)) = pages]_vars

\* two requests have each added their page to the database
C5_Witness ==
    /\ VoiceRunEnded
    /\ transcription_result.success
    /\ notion_result.success
    /\ Len(created) = 1
    /\ Len(pages) = 2

(* ------------------------------- C6 ----------------------------------- *)

\* update processing began: the body was parsed and the bot constructed
UpdateProcessed == variant = "webhook" /\ bot.built /\ runs > 0

\* C6: handler() always returns an envelope; it is 200 {status: "ok"}
\* whenever update processing was entered, whatever happened inside it; the
\* 500 {status: "error", message} envelope is returned only for an error
\* raised before update processing (body parsing, bot construction).
C6_HandlerAlwaysAcknowledges ==
    (variant = "webhook" /\ pc = "done" /\ runs > 0) =>
        /\ response.statusCode \in {200, 500}
        /\ UpdateProcessed => response = OkEnvelope
        /\ response.statusCode = 200 => response.status = "ok"
        /\ response.statusCode = 500 =>
              /\ response.status = "error"
              /\ response.message \in {"json_decode_error", "invalid_token"}
              /\ raised = "handler"
              /\ ~bot.built
              /\ calls = <<>> /\ chat = <<>>

\* every chat message of an authorized voice run failed, the exception left
\* handle_voice_message, and the envelope is still the acknowledgement
C6_Witness ==
    /\ variant = "webhook" /\ pc = "done"
    /\ update.kind = "voice"
    /\ raised = "process_update"
    /\ Len(chat) = 2 /\ Delivered = <<>>
    /\ response = OkEnvelope

(* ------------------------------- C7 ----------------------------------- *)

MyIdRun ==
    /\ variant = "webhook" /\ bot.built /\ runs > 0
    /\ update.kind = "text" /\ update.text = "/myid"

\* C7: in the webhook variant, for every sender, the reply handle_text_message
\* sends to the text /myid carries that sender's numeric ID; the run never
\* calls is_authorized_user and never sends an unauthorized message.
C7_MyIdBypassesAuthorization ==
    MyIdRun =>
        /\ CallsOf("is_authorized_user") = <<>>
        /\ \A i \in 1..Len(chat) :
              chat[i].text.kind \notin {"unauthorized", "unauthorized_hint"}
        /\ chat # <<>> =>
              /\ chat[1].text.kind = "myid"
              /\ chat[1].text.user_id = Sender.id
        /\ Delivered # <<>> /\ chat[1].outcome = "ok" =>
              Visible = <<MyIdText(Sender)>>
        /\ pc \in {"return", "done"} => chat # <<>>

\* a sender outside the allow-list has received their ID
C7_Witness ==
    /\ MyIdRun /\ pc = "done"
    /\ ~SenderAllowed
    /\ Len(Visible) = 1
    /\ Visible[1].kind = "myid"
    /\ Visible[1].user_id = "1001"

(* ------------------------------- C8 ----------------------------------- *)

\* the command tokens a variant recognizes and the canned text of each
CannedKind(text) ==
    IF text = "/myid" /\ variant = "webhook" THEN "myid"
    ELSE IF text = "/start" THEN "welcome"
    ELSE IF text = "/help" THEN "help"
    ELSE "prompt"

VoiceTextKinds ==
    {"unauthorized", "interim", "final", "transcription_failed",
     "voice_apology"}

\* C8: an update with a message is dispatched one of three ways: a voice
\* payload to the voice pipeline, a recognized command to its canned
\* response, anything else (unrecognized text, neither voice nor text) to
\* the generic prompt.
C8_ThreeWayDispatch ==
    (pc = "done" /\ bot.built /\ update.kind \in {"voice", "text", "other"}) =>
        /\ chat # <<>>
        /\ IF update.kind = "voice"
           THEN chat[1].text.kind \in VoiceTextKinds
           ELSE IF update.kind = "text"
           THEN chat[1].text.kind = CannedKind(update.text)
           ELSE chat[1].text.kind = "prompt"

(* ------------------------------- C9 ----------------------------------- *)

TranscriptionConfigured == env.OPENAI_API_KEY
StoreConfigured == env.NOTION_TOKEN /\ env.NOTION_DATABASE_ID

\* C9: with the transcription credential unset, transcribe_audio returns
\* its "not configured" failure without converting or calling the API; with
\* the store credential or the database identifier unset,
\* create_voice_memo_page returns its "not configured" failure without
\* calling the titler's language model or the store.
C9_DegradeGracefully ==
    VoiceRun =>
        /\ ~TranscriptionConfigured =>
              /\ CallsOf("convert_oga_to_mp3") = <<>>
              /\ CallsOf("transcriptions.create") = <<>>
              /\ pc \in {"edit_error"} =>
                    transcription_result = Failure("OpenAI API key not configured")
              /\ pc # "create_voice_memo_page"
              /\ ~transcription_result.success
        /\ ~StoreConfigured =>
              /\ CallsOf("chat.completions.create") = <<>>
              /\ CallsOf("pages.create") = <<>>
              /\ created = <<>>
              /\ pc = "edit_final" =>
                    notion_result = NotionFailure("Notion client not configured")
              /\ ~notion_result.success

\* the store is not configured and create_voice_memo_page has returned
C9_Witness ==
    /\ VoiceRun /\ pc = "edit_final"
    /\ env.NOTION_TOKEN /\ ~env.NOTION_DATABASE_ID
    /\ transcription_result.success
    /\ notion_result = NotionFailure("Notion client not configured")

(* ------------------------------- C10 ---------------------------------- *)

RaisedCalls(api) == SelectSeq(CallsOf(api), LAMBDA c : c.outcome = "raise")

\* no call of Telegram (get_file, download, send, edit) has raised
OnlyServiceErrors ==
    /\ \A i \in 1..Len(calls) :
          calls[i].api \in {"get_file", "download_to_drive"}
             => calls[i].outcome = "ok"
    /\ \A j \in 1..Len(chat) : chat[j].outcome = "ok"

\* C10: in one run the transcription API, the language model and the
\* store's create call are each called at most once, and an error raised by
\* the conversion, the transcription call or the store call comes back as
\* a failure result carrying its message: the run goes on to the edit of
\* the interim message, not to the handler's catch-all.
C10_SingleAttemptErrorsAsValues ==
    VoiceRun =>
        /\ Len(CallsOf("transcriptions.create")) <= 1
        /\ Len(CallsOf("chat.completions.create")) <= 1
        /\ Len(CallsOf("pages.create")) <= 1
        /\ RaisedCalls("convert_oga_to_mp3") # <<>> =>
              /\ transcription_result = Failure("conversion_error")
              /\ CallsOf("transcriptions.create") = <<>>
        /\ RaisedCalls("transcriptions.create") # <<>> =>
              transcription_result = Failure("whisper_api_error")
        /\ RaisedCalls("pages.create") # <<>> =>
              notion_result = NotionFailure("notion_api_error")
        /\ RaisedCalls("chat.completions.create") # <<>> /\ pc # "except_voice"
              => notion_result.set
        /\ OnlyServiceErrors => raised = "none" /\ pc # "except_voice"

\* the language model and the store both raised and the run went on
C10_Witness ==
    /\ VoiceRunEnded
    /\ RaisedCalls("chat.completions.create") # <<>>
    /\ RaisedCalls("pages.create") # <<>>
    /\ notion_result = NotionFailure("notion_api_error")
    /\ Len(TerminalVisible) = 1
    /\ TerminalVisible[1].kind = "final"

(* ----------------------------------------------------------------------- *)

\* the model could not be used: no credential, or the call raised (an API
\* error, no choices, content None)
GenerationUnavailable ==
    ~titler.openai_client \/ titler.llm.outcome = "raise"

\* C11: for every transcript and every outcome of the language model,
\* generate_ai_title returns (a raise of the model call is caught, one call
\* at most is made) a text of at most 100 characters; when generation is
\* unavailable the text is the first 50 characters of the transcript and
\* an ellipsis, or the whole transcript.
C11_TitleAtMost100 ==
    /\ pc = "returned" <=> titler.returned
    /\ Len(calls) <= 1
    /\ titler.returned =>
         /\ Len(titler.title) <= 100
         /\ GenerationUnavailable =>
              \/ titler.title = titler.transcript
              \/ titler.title = SubSeq(titler.transcript, 1, 50) \o <<".", ".", ".">>

\* a reply longer than the cap came back and was cut to 97 + "..."
C11_Witness ==
    /\ titler.returned
    /\ ~GenerationUnavailable
    /\ Len(titler.llm.content) > 100
    /\ Len(titler.title) = 100
    /\ SubSeq(titler.title, 98, 100) = <<".", ".", ".">>

\* C12: with no language-model credential, or when the call fails, the
\* title is exactly transcript[:50] + "..." for a transcript longer than 50
\* characters and the transcript itself otherwise.
C12_FallbackTruncation ==
    titler.returned /\ GenerationUnavailable =>
        IF Len(titler.transcript) > 50
        THEN /\ Len(titler.title) = 53
             /\ \A i \in 1..50 : titler.title[i] = titler.transcript[i]
             /\ \A i \in 51..53 : titler.title[i] = "."
        ELSE titler.title = titler.transcript

\* the call failed with a credential configured and a long transcript
C12_Witness ==
    /\ titler.returned
    /\ titler.openai_client
    /\ titler.llm.outcome = "raise"
    /\ Len(titler.transcript) > 50
    /\ Len(titler.title) = 53

\* C13: any two distinct voice runs write (and then read) different local
\* file paths, two messages of one sender within the same second included.
C13_RunsWriteDistinctPaths ==
    \A i, j \in 1..Len(written) :
        written[i].run # written[j].run =>
            written[i].path # written[j].path


\* the run has gone past the authorization check of the voice handler
PastVoiceCheck ==
    /\ variant = "webhook"
    /\ VoiceRun
    /\ pc \in {"send_unauthorized", "get_file", "download_to_drive"}

\* the run has answered a text that is subject to the check
PastTextCheck ==
    /\ variant = "webhook"
    /\ bot.built /\ update.kind = "text" /\ update.text # "/myid"
    /\ chat # <<>>

DownloadFailed ==
    /\ VoiceRun
    /\ \E i \in 1..Len(calls) :
         /\ calls[i].api \in {"get_file", "download_to_drive"}
         /\ calls[i].outcome = "raise"

\* C15: when get_file or download_to_drive fails, the run aborts: no
\* interim message is sent, neither the transcriber nor the store (nor the
\* title model) is invoked, nothing is stored, and the one thing the
\* handler tells the requester is the generic processing-error message.
C15_DownloadFailureAborts ==
    DownloadFailed =>
        /\ \A i \in 1..Len(chat) : chat[i].text.kind # "interim"
        /\ calls[Len(calls)].api \in {"get_file", "download_to_drive"}
        /\ transcription_result = NoResult
        /\ notion_result = NoNotionResult
        /\ created = <<>>
        /\ file # "present"
        /\ pc \in {"except_voice", "return", "done"}
        /\ IF pc = "except_voice" THEN chat = <<>>
           ELSE /\ Len(chat) = 1
                /\ chat[1].op = "send"
                /\ chat[1].text = VoiceApologyText
        /\ Delivered # <<>> => Visible = <<VoiceApologyText>>

\* the download of an authorized sender's file failed and the apology
\* reached the requester
C15_Witness ==
    /\ DownloadFailed
    /\ variant = "webhook"
    /\ SenderAllowed
    /\ calls[Len(calls)] = Call("download_to_drive", "raise")
    /\ pc = "done"
    /\ Visible = <<VoiceApologyText>>

\* the place of a call in the pipeline
StageRank(api) ==
    CASE api = "is_authorized_user" -> 0
      [] api = "get_file" -> 1
      [] api = "download_to_drive" -> 2
      [] api = "convert_oga_to_mp3" -> 3
      [] api = "transcriptions.create" -> 4
      [] api = "chat.completions.create" -> 5
      [] api = "pages.create" -> 6

InterimSent == \E i \in 1..Len(chat) : chat[i].text.kind = "interim"
EditIssued == \E i \in 1..Len(chat) : chat[i].op = "edit"
FinalEditIssued ==
    \E i \in 1..Len(chat) : chat[i].op = "edit" /\ chat[i].text.kind = "final"
StoreEntered ==
    \/ pc = "create_voice_memo_page"
    \/ notion_result.set
    \/ CallsOf("chat.completions.create") # <<>>
    \/ CallsOf("pages.create") # <<>>

\* the order of the stages and what each stage needs of the earlier ones,
\* the final edit's dependence on the store's result left aside
StagesInOrder ==
    VoiceRun =>
        \* calls are made in pipeline order, each at most once, and a call
        \* follows only calls that succeeded (a failed title request is
        \* replaced by the fallback inside the store stage)
        /\ \A i, j \in 1..Len(calls) :
             i < j => /\ StageRank(calls[i].api) < StageRank(calls[j].api)
                      /\ calls[i].api # "chat.completions.create"
                           => calls[i].outcome = "ok"
        \* the webhook checks the sender before anything else
        /\ variant = "webhook" /\ (ExternalCalls # <<>> \/ InterimSent)
             => calls[1] = Call("is_authorized_user", "ok") /\ SenderAllowed
        \* the interim message follows a successful download
        /\ pc = "send_interim" \/ InterimSent
             => /\ calls[Len(calls)].api # "get_file"
                /\ \E i \in 1..Len(calls) :
                     calls[i] = Call("download_to_drive", "ok")
        /\ pc = "send_interim" => chat = <<>>
        /\ InterimSent => chat[1].text.kind = "interim" /\ chat[1].op = "send"
        \* transcription follows a delivered interim message
        /\ (pc = "transcribe" \/ transcription_result.set
              \/ CallsOf("convert_oga_to_mp3") # <<>>
              \/ CallsOf("transcriptions.create") # <<>>)
             => InterimSent /\ chat[1].outcome = "ok"
        /\ pc = "transcribe"
             => /\ Len(chat) = 1
                /\ calls[Len(calls)] = Call("download_to_drive", "ok")
                /\ ~transcription_result.set
        \* the store follows a successful transcription
        /\ StoreEntered => transcription_result.success
        /\ pc = "create_voice_memo_page"
             => Len(chat) = 1 /\ ~notion_result.set
        \* the edit comes last
        /\ pc \in {"edit_final", "edit_error"} => Len(chat) = 1
        /\ pc = "edit_final" => notion_result.set
        /\ pc = "edit_error"
             => transcription_result.set /\ ~transcription_result.success
        /\ EditIssued
             => /\ Len(chat) >= 2 /\ chat[2].op = "edit"
                /\ transcription_result.set
                /\ IF chat[2].text.kind = "final"
                   THEN transcription_result.success /\ notion_result.set
                   ELSE ~transcription_result.success /\ ~StoreEntered

\* C16 (as stated): the stages of a voice run occur in the order
\* authorization check, download, interim message, transcription call,
\* store call, final edit, and each stage is entered only if every earlier
\* stage completed successfully, so the final edit only after a
\* successful store.
C16_EachStageNeedsEveryEarlierSuccess ==
    /\ StagesInOrder
    /\ VoiceRun /\ (pc = "edit_final" \/ FinalEditIssued)
         => notion_result.success

\* C16 (amended): the same order; the store is entered only after a
\* successful transcription, the transcription only after a successful
\* download and a delivered interim message; the final edit is entered
\* after create_voice_memo_page returned, with success or with failure.
C16_StagesSequential ==
    /\ StagesInOrder
    /\ VoiceRun /\ (pc = "edit_final" \/ FinalEditIssued)
         => notion_result.set /\ transcription_result.success
    /\ VoiceRun /\ notion_result.set /\ pc \in {"return", "done"}
         => FinalEditIssued

\* a run went through every stage, the store call failed and the final
\* edit was made all the same
C16_Witness ==
    /\ VoiceRun /\ variant = "webhook" /\ pc = "done"
    /\ Len(calls) = 6
    /\ calls[6] = Call("pages.create", "raise")
    /\ FinalEditIssued
    /\ chat[2].outcome = "ok"
    /\ ~notion_result.success

\* the run has got past the download
PassedDownload ==
    /\ VoiceRun
    /\ \E i \in 1..Len(calls) : calls[i] = Call("download_to_drive", "ok")
    /\ pc # "send_interim"

\* C17: in every run that passes download exactly one interim message is
\* sent, before the transcription call; the terminal response after a
\* successful and after a failed transcription is an edit of that same
\* message, with no additional message sent; nothing but the interim
\* message is ever edited.
C17_InterimEditedInPlace ==
    /\ PassedDownload =>
         /\ Len(SelectSeq(chat, LAMBDA m : m.text.kind = "interim")) = 1
         /\ chat[1].op = "send" /\ chat[1].text.kind = "interim"
         /\ CallsOf("transcriptions.create") # <<>> => chat[1].outcome = "ok"
         /\ transcription_result.set /\ pc \in {"return", "done"}
              => /\ Len(chat) = 2
                 /\ chat[2].op = "edit"
                 /\ chat[2].text.kind =
                      IF transcription_result.success THEN "final"
                      ELSE "transcription_failed"
    /\ \A i \in 1..Len(chat) :
         chat[i].op = "edit"
           => /\ chat[i].target \in 1..(i - 1)
              /\ chat[chat[i].target].op = "send"
              /\ chat[chat[i].target].text.kind = "interim"

\* C18: after a successful transcription the final message has the
\* "processed" header and the transcript, and exactly one store notice:
\* the link with the URL the store returned iff create_voice_memo_page
\* returned success, the save-failed notice with the failure's reason iff
\* it returned failure; the handler never issues the transcription-failed
\* text in its place.
C18_OneStoreStatusSuffix ==
    VoiceRun =>
        /\ \A i \in 1..Len(chat) :
             chat[i].text.kind = "final" =>
                 /\ chat[i].op = "edit"
                 /\ transcription_result.success /\ notion_result.set
                 /\ chat[i].text.header = "processed"
                 /\ chat[i].text.transcript = transcription_result.value
                 /\ chat[i].text.suffix \in {"saved_to_notion",
                                             "notion_save_failed"}
                 /\ chat[i].text.suffix = "saved_to_notion"
                      <=> notion_result.success
                 /\ notion_result.success =>
                      /\ Len(created) = 1
                      /\ chat[i].text.page_url = created[1].url
                      /\ chat[i].text.error = "-"
                 /\ ~notion_result.success =>
                      /\ created = <<>>
                      /\ chat[i].text.error = notion_result.error
                      /\ chat[i].text.error # "-"
                      /\ chat[i].text.page_url = 0
        /\ transcription_result.success /\ pc \in {"return", "done"} =>
             /\ Len(chat) >= 2
             /\ chat[2].text.kind = "final"
             /\ \A i \in 1..Len(chat) :
                  chat[i].text.kind # "transcription_failed"
             /\ chat[2].outcome = "ok" => Visible = <<chat[2].text>>

\* the record was stored and the final message with its link was delivered
C18_Witness ==
    /\ VoiceRun /\ pc = "done"
    /\ notion_result.success
    /\ Len(chat) = 2
    /\ chat[2].outcome = "ok"
    /\ chat[2].text.suffix = "saved_to_notion"
    /\ chat[2].text.page_url = pages[Len(pages)].url

\* the handlers of a run have nothing left to do
ProcessingTerminal ==
    /\ pc \in {"return", "done"}
    /\ file # "present"
    /\ VoiceRun =>
         /\ chat # <<>>
         /\ chat[Len(chat)].text.kind # "interim"
         /\ chat[Len(chat)].outcome = "raise"
              => chat[Len(chat)].text = VoiceApologyText
    /\ bot.built /\ update.kind = "text" =>
         /\ chat # <<>>
         /\ chat[Len(chat)].outcome = "raise"
              => chat[Len(chat)].text = TextApologyText

\* C19: a webhook invocation returns its envelope only when the processing
\* of the update has reached a terminal state, the envelope is the last
\* thing the invocation does, and nothing of the run changes afterwards.
C19_RunsToCompletionBeforeReturning ==
    /\ [](variant = "webhook" /\ response # NoResponse
            => pc = "done" /\ ProcessingTerminal)
    /\ [][variant = "webhook" /\ response = NoResponse
            /\ response' = OkEnvelope
              => /\ pc = "return" /\ ProcessingTerminal
                 /\ calls' = calls /\ chat' = chat /\ pages' = pages]_vars
    /\ [][variant = "webhook" /\ response # NoResponse /\ runs' = runs
              => UNCHANGED <<calls, chat, pages, created, file, written,
                             transcription_result, notion_result>>]_vars

\* the acknowledgement went out after a run whose edit failed and whose
\* apology was sent
C19_Witness ==
    /\ variant = "webhook" /\ VoiceRun
    /\ pc = "done" /\ response = OkEnvelope
    /\ Len(chat) = 3
    /\ chat[3].text = VoiceApologyText

Downloaded ==
    \E i \in 1..Len(calls) : calls[i] = Call("download_to_drive", "ok")

\* C20: within a variant the local audio file is treated the same on every
\* terminal path. Webhook: once the with block is left (by the final edit,
\* by the failure edit or by an exception) the file is gone, so it does not
\* exist when the run ends. Polling: a downloaded file is still there when
\* the run ends, after a successful and after a failed transcription.
C20_RetentionConsistentWithinVariant ==
    VoiceRun =>
        /\ file # "none" <=> Downloaded
        /\ variant = "webhook" =>
             /\ file = "present"
                  <=> Downloaded /\ pc \in {"send_interim", "transcribe",
                                            "create_voice_memo_page",
                                            "edit_final", "edit_error"}
             /\ pc \in {"except_voice", "return", "done"}
                  => file # "present"
        /\ variant = "polling" => file # "deleted"
        /\ variant = "polling" /\ Downloaded => file = "present"

\* a webhook run whose transcription failed has ended and its file is gone
C20_Witness ==
    /\ VoiceRun /\ variant = "webhook" /\ pc = "done"
    /\ transcription_result.set /\ ~transcription_result.success
    /\ file = "deleted"

\* str.strip() of the text is empty
Blank(s) == \A k \in 1..Len(s) : s[k] = " "

\* C21: the title of every record handed to a configured store has a
\* character that is not whitespace: when generate_ai_title yields an empty
\* or whitespace-only title, the record is titled
\* "Voice memo from {user_name}", otherwise it carries the derived title.
C21_RecordTitleNeverBlank ==
    /\ \A i \in 1..Len(pages) : ~Blank(pages[i].title)
    /\ VoiceRun /\ created # <<>> =>
         /\ titler.returned
         /\ titler.transcript = created[1].transcript
         /\ created[1].title =
              IF Blank(titler.title)
              THEN <<"Voice memo from ", user_name_of(Sender)>>
              ELSE titler.title

\* a whitespace-only title was derived and the record got the substitute
C21_Witness ==
    /\ VoiceRun /\ created # <<>>
    /\ titler.title = <<" ">>
    /\ created[1].title = <<"Voice memo from ", "Jon">>

\* C22: a voice run that created a record ends with the requester seeing
\* the final message with the transcript and the link to that record, and
\* neither the generic apology nor the interim text.
C22_RecordImpliesFinalMessage ==
    (VoiceRunEnded /\ created # <<>>) =>
        /\ \E i \in 1..Len(Visible) :
             /\ Visible[i].kind = "final"
             /\ Visible[i].transcript = created[1].transcript
             /\ Visible[i].suffix = "saved_to_notion"
             /\ Visible[i].page_url = created[1].url
        /\ \A i \in 1..Len(Visible) :
             Visible[i].kind \notin {"voice_apology", "interim"}

\* the webhook is answering a text other than /myid from a sender outside
\* the allow-list
UnauthorizedTextRun ==
    /\ variant = "webhook" /\ bot.built /\ runs > 0
    /\ update.kind = "text" /\ update.text # "/myid"
    /\ Sender.id # "8314097969"

\* C23 (as stated): the only response to such a text is the unauthorized
\* notice; the welcome, the help text and the prompt are never sent.
C23_OnlyUnauthorizedNotice ==
    UnauthorizedTextRun =>
        /\ \A i \in 1..Len(chat) : chat[i].text.kind = "unauthorized_hint"
        /\ pc \in {"return", "done"} => chat # <<>>

\* C23 (amended): the handler's reply to such a text is the unauthorized
\* notice and the welcome, the help text and the prompt are never sent;
\* the one other message that can follow is the generic apology of the
\* except block, and only when the send of the notice raised.
C23_NoticeThenAtMostApology ==
    UnauthorizedTextRun =>
        /\ ExternalCalls = <<>>
        /\ \A i \in 1..Len(chat) :
             chat[i].text.kind \notin {"welcome", "help", "prompt", "myid"}
        /\ pc \in {"return", "done"} => chat # <<>>
        /\ chat # <<>> =>
             /\ chat[1].op = "send"
             /\ chat[1].text.kind = "unauthorized_hint"
             /\ chat[1].outcome = "ok" =>
                  Len(chat) = 1 /\ Visible = <<chat[1].text>>
             /\ chat[1].outcome = "raise" =>
                  /\ Len(chat) <= 2
                  /\ pc \in {"return", "done"} => Len(chat) = 2
                  /\ Len(chat) = 2 => /\ chat[2].op = "send"
                                      /\ chat[2].text.kind = "text_apology"

\* /start from a stranger was answered with the notice alone
C23_Witness ==
    /\ UnauthorizedTextRun /\ update.text = "/start"
    /\ pc = "done"
    /\ Len(Visible) = 1
    /\ Visible[1].kind = "unauthorized_hint"

============================================================================
